---- MODULE Spec2Model ----
\* A model of Antares::MemoryPool (src/src/MemoryPool.cpp, src/src/MemoryPool.h):
\* the global id registry, the per-pool resource maps, the per-thread
\* TLSResourceArray and the pool operations built on them.
EXTENDS Integers, FiniteSets, Sequences, TLC

\* ------------------------------------------------------------------
\* Bounds of the model
\* ------------------------------------------------------------------

\* the macro MAX_MEMORYPOOL_COUNT, which the build defines; 2 is the smallest
\* value with which two pools can be live
MAX_MEMORYPOOL_COUNT == 2

\* largest value of MAX_MEMORYPOOL_COUNT explored by the id-registry specification
MaxPoolsCfg == 4

\* MemoryPool objects (storage for a pool) beyond MAX_MEMORYPOOL_COUNT in the
\* id-registry specifications, so that one more construction can be attempted
ExtraPools == 1

\* MemoryPool objects of the specification without allocation failures
NPoolObjs == 2

\* MemoryPool objects of the specifications with allocation failures or
\* followed pointers
NPoolObjsSmall == 1

\* number of threads; thread 1 is the main thread and never exits
NThreads == 2

\* number of returned pointers that are followed
MaxPtrs == 1

Threads == 1..NThreads

MainThread == 1

Gens == {0, 1}

\* a null ControlledResource (std::unique_ptr<Resource>)
NoArena == 0

\* a live arena held by a ControlledResource
Arena == 1

\* a thread outside every library call
Idle == [op |-> "idle", p |-> 0, g |-> 0, seen |-> {}]

\* no range-for over a registry set is in progress
NoWalk == [kind |-> "none", p |-> 0, todo |-> {}, visited |-> {}]

\* an unused entry of ptrs. A followed pointer records the thread, the slot
\* (idx, g) and the pool it came from, whether MallocTemp returned it (temp),
\* whether the gc callback of the pool was running (cb), whether Free was called
\* on it, and status: "live" or the operation that destroyed its arena
NoPtr == [t |-> 0, idx |-> 0, g |-> 0, pool |-> 0, temp |-> FALSE, cb |-> FALSE,
          freed |-> FALSE, status |-> "none"]

VARIABLES
    maxPools,     \* MAX_MEMORYPOOL_COUNT of this build
    collection,   \* ResourceIdCollection::resourceCollection : id -> pool (its ResourceMap)
    poolState,    \* per MemoryPool object: "unborn", "live", "dying" (in ~MemoryPool)
    poolId,       \* MemoryPool::id
    useFront,     \* MemoryPool::useFront
    hasGC,        \* ResourceMap::gc holds a callable
    inCallback,   \* MemoryPool::GC is inside gcAlgorithm()
    maps,         \* ResourceMap::resourceMaps[g].resourceMap : set of handle cells
    tstate,       \* per thread: "fresh" (no TLS yet), "live", "dtor" (in ~TLSResourceArray), "exited"
    exitPos,      \* number of removeRefFromPool calls ~TLSResourceArray has made
    cell,         \* TLSResourceArray::resourceArray[i].pointers[g].resource of each thread
    ptrs,         \* pointers handed out by Malloc / MallocTemp that are followed
    ctorThrew,    \* the last constructor or destructor call was a constructor that threw
    pc,           \* per thread: the statement it is at inside a library call, "idle" outside
    gMutex,       \* ResourceIdCollection::mutex : 0 or the thread that holds it
    collMutex,    \* ResourceMap::resourceMaps[g].collectionMutex : 0 or the holder
    slotMutex,    \* CriticalControlledResource::protectMtx of each handle cell : 0 or the holder
    walk          \* the range-for of CleanAll / CleanTemp in progress

\* the MemoryPool objects, numbered in order of construction
PoolObjs == DOMAIN poolState

vars == <<maxPools, collection, poolState, poolId, useFront, hasGC, inCallback,
          maps, tstate, exitPos, cell, ptrs, ctorThrew, pc, gMutex, collMutex, slotMutex, walk>>

\* the statement-level state: positions inside calls, and the locks
lockVars == <<pc, gMutex, collMutex, slotMutex, walk>>

poolVars == <<poolState, poolId, useFront, hasGC, inCallback>>

threadVars == <<tstate, exitPos>>

\* ------------------------------------------------------------------
\* Helpers
\* ------------------------------------------------------------------

Min(S) == CHOOSE x \in S : \A y \in S : x <= y

Max(S) == CHOOSE x \in S : \A y \in S : x >= y

EmptyMap == [k \in {} |-> 0]

\* handle cells of thread t: &resourceArray[i].pointers[g].resource
CellsOf(t) == {<<t, i, g>> : i \in 0..(maxPools - 1), g \in Gens}

AllCells == UNION {CellsOf(t) : t \in Threads}

\* keys of the registry: ids held by constructed pools
LiveIds == DOMAIN collection

LivePools == {p \in PoolObjs : poolState[p] = "live"}

\* std::map::insert: does not replace an existing key
MapInsert(coll, k, v) ==
    IF k \in DOMAIN coll THEN coll
    ELSE [x \in (DOMAIN coll) \cup {k} |-> IF x = k THEN v ELSE coll[x]]

\* std::map::erase(key)
MapErase(coll, k) == [x \in (DOMAIN coll) \ {k} |-> coll[x]]

\* the loop of QueryFreeMemoryPoolId over the sorted keys after lastKnown;
\* -1 when the loop ends without finding a gap
RECURSIVE ScanGap(_, _)
ScanGap(keys, lastKnown) ==
    LET rest == {k \in keys : k > lastKnown}
    IN  IF rest = {} THEN -1
        ELSE LET current == Min(rest)
             IN  IF current - lastKnown > 1 THEN lastKnown + 1
                 ELSE ScanGap(keys, current)

\* QueryFreeMemoryPoolId with an off-by-one in "rbegin()->first + 1": the id
\* after the largest live id is skipped
QueryFreeMemoryPoolIdSkip(coll, maxp) ==
    LET keys == DOMAIN coll
        size == Cardinality(keys)
    IN  IF size = 0 THEN [throws |-> FALSE, id |-> 0]
        ELSE IF size = 1 THEN [throws |-> FALSE, id |-> IF Min(keys) = 0 THEN 1 ELSE 0]
        ELSE IF size = maxp THEN [throws |-> TRUE, id |-> 0]
        ELSE [throws |-> FALSE, id |-> Max(keys) + 2]

\* QueryFreeMemoryPoolId: the id inserted, or throws
QueryFreeMemoryPoolId(coll, maxp) ==
    LET keys == DOMAIN coll
        size == Cardinality(keys)
    IN  IF size = 0 THEN [throws |-> FALSE, id |-> 0]
        ELSE IF size = 1 THEN [throws |-> FALSE, id |-> IF Min(keys) = 0 THEN 1 ELSE 0]
        ELSE IF size = maxp THEN [throws |-> TRUE, id |-> 0]
        ELSE LET result == Max(keys) + 1
             IN  IF result = maxp
                 THEN LET found == ScanGap(keys, Min(keys))
                      IN  IF found = -1 THEN [throws |-> TRUE, id |-> 0]
                          ELSE [throws |-> FALSE, id |-> found]
                 ELSE [throws |-> FALSE, id |-> result]

\* the MemoryPool object the next constructor call builds
NextPool == Min({p \in PoolObjs : poolState[p] = "unborn"})

\* mark the followed pointers whose arena is destroyed
KillPtrs(ps, cells, cause) ==
    [k \in DOMAIN ps |->
        IF ps[k].status = "live" /\ <<ps[k].t, ps[k].idx, ps[k].g>> \in cells
        THEN [ps[k] EXCEPT !.status = cause]
        ELSE ps[k]]

\* the followed pointers of pool p stop counting as allocated by its callback
ForgetCallback(ps, p) ==
    [k \in DOMAIN ps |-> IF ps[k].pool = p THEN [ps[k] EXCEPT !.cb = FALSE] ELSE ps[k]]

\* resource->reset() on every handle of a set of cells
ResetCells(c, cells) == [x \in DOMAIN c |-> IF x \in cells THEN NoArena ELSE c[x]]

\* ------------------------------------------------------------------
\* Initial state
\* ------------------------------------------------------------------

InitWith(maxp, npools) ==
    /\ maxPools = maxp
    /\ collection = EmptyMap
    /\ poolState = [p \in 1..npools |-> "unborn"]
    /\ poolId = [p \in 1..npools |-> 0]
    /\ useFront = [p \in 1..npools |-> TRUE]
    /\ hasGC = [p \in 1..npools |-> FALSE]
    /\ inCallback = [p \in 1..npools |-> FALSE]
    /\ maps = [p \in 1..npools |-> [g \in Gens |-> {}]]
    /\ tstate = [t \in Threads |-> "fresh"]
    /\ exitPos = [t \in Threads |-> 0]
    /\ cell = [x \in {<<t, i, g>> : t \in Threads, i \in 0..(maxp - 1), g \in Gens} |-> NoArena]
    /\ ptrs = [k \in 1..MaxPtrs |-> NoPtr]
    /\ ctorThrew = FALSE
    /\ pc = [t \in Threads |-> Idle]
    /\ gMutex = 0
    /\ collMutex = [p \in 1..npools |-> [g \in Gens |-> 0]]
    /\ slotMutex = [x \in {<<t, i, g>> : t \in Threads, i \in 0..(maxp - 1), g \in Gens} |-> 0]
    /\ walk = NoWalk

Init == InitWith(MAX_MEMORYPOOL_COUNT, NPoolObjs)

InitSmall == InitWith(MAX_MEMORYPOOL_COUNT, NPoolObjsSmall)

InitIds == \E maxp \in 1..MaxPoolsCfg : InitWith(maxp, maxp + ExtraPools)

\* ------------------------------------------------------------------
\* Pool construction and destruction
\* ------------------------------------------------------------------

\* MemoryPool::MemoryPool, QueryFreeMemoryPoolId returns
Construct ==
    /\ \E p \in PoolObjs : poolState[p] = "unborn"
    /\ LET p == NextPool
           r == QueryFreeMemoryPoolId(collection, maxPools)
       IN  /\ ~r.throws
           /\ collection' = MapInsert(collection, r.id, p)
           /\ poolState' = [poolState EXCEPT ![p] = "live"]
           /\ poolId' = [poolId EXCEPT ![p] = r.id]
           /\ ctorThrew' = FALSE
    /\ UNCHANGED <<maxPools, useFront, hasGC, inCallback, maps, threadVars, cell, ptrs,
                   lockVars>>

\* MemoryPool::MemoryPool, QueryFreeMemoryPoolId throws
ConstructThrow ==
    /\ \E p \in PoolObjs : poolState[p] = "unborn"
    /\ QueryFreeMemoryPoolId(collection, maxPools).throws
    /\ ctorThrew' = TRUE
    /\ UNCHANGED <<maxPools, collection, poolVars, maps, threadVars, cell, ptrs, lockVars>>

\* ResourceMap::CleanAll walking the sets of every pool of the registry, as if
\* the sets were shared by the pools
CleanAllCellsEveryPool(p) == UNION {maps[q][0] \cup maps[q][1] : q \in PoolObjs}

\* ResourceMap::CleanAll
CleanAllCells(p) == maps[p][0] \cup maps[p][1]

\* MemoryPool::~MemoryPool, first statement: pImpl->CleanAll()
DestroyCleanAll(p) ==
    /\ poolState[p] = "live"
    /\ ~inCallback[p]
    /\ poolState' = [poolState EXCEPT ![p] = "dying"]
    /\ cell' = ResetCells(cell, CleanAllCells(p))
    /\ ptrs' = ForgetCallback(KillPtrs(ptrs, CleanAllCells(p), "destroy"), p)
    /\ ctorThrew' = FALSE
    /\ UNCHANGED <<maxPools, collection, poolId, useFront, hasGC, inCallback, maps, threadVars,
                   lockVars>>

\* FreeMemoryPoolId
FreeMemoryPoolId(coll, id) == MapErase(coll, id)

\* MemoryPool::~MemoryPool, second statement and destruction of pImpl
DestroyFreeId(p) ==
    /\ poolState[p] = "dying"
    /\ collection' = FreeMemoryPoolId(collection, poolId[p])
    /\ poolState' = [poolState EXCEPT ![p] = "unborn"]
    /\ useFront' = [useFront EXCEPT ![p] = TRUE]
    /\ hasGC' = [hasGC EXCEPT ![p] = FALSE]
    /\ maps' = [maps EXCEPT ![p] = [g \in Gens |-> {}]]
    /\ ctorThrew' = FALSE
    /\ UNCHANGED <<maxPools, poolId, inCallback, threadVars, cell, ptrs, lockVars>>

\* ------------------------------------------------------------------
\* Allocation
\* ------------------------------------------------------------------

\* GetResourcePointer without "useFront = !useFront" for the Temporary policy
SlotOfIgnorePolicy(uf, temp) == IF uf THEN 0 ELSE 1

\* GetResourcePointer: index of pointers[] and of resourceMaps[] that is used;
\* the Temporary policy inverts useFront
SlotOf(uf, temp) == IF (IF temp THEN ~uf ELSE uf) THEN 0 ELSE 1

\* ResourceMap::BindResource inserting into both sets, whatever useFront is
BindResourceBothSets(m, c, g) == [h \in Gens |-> m[h] \cup {c}]

\* ResourceMap::BindResource
BindResource(m, c, g) == [m EXCEPT ![g] = @ \cup {c}]

\* ResourceMap::RemoveResource
RemoveResource(m, c, g) == [m EXCEPT ![g] = @ \ {c}]

\* the first unused entry of ptrs, 0 if none
FreePtrSlot == IF \E k \in DOMAIN ptrs : ptrs[k].status = "none"
               THEN Min({k \in DOMAIN ptrs : ptrs[k].status = "none"})
               ELSE 0

\* thread t may call into the library
Running(t) == tstate[t] \in {"fresh", "live"}

\* MemoryPool::Malloc (temp = FALSE) and MemoryPool::MallocTemp (temp = TRUE)
\* by thread t on pool p. fail names the allocation that throws std::bad_alloc:
\* "create" (make_unique<Resource>), "bind" (the insert of BindResource),
\* "alloc" (Resource::allocate) or "none".
Malloc(t, p, temp, fail, follow) ==
    /\ Running(t)
    /\ poolState[p] = "live"
    /\ poolId[p] < maxPools
    /\ LET g == SlotOf(useFront[p], temp)
           c == <<t, poolId[p], g>>
           firstTouch == cell[c] = NoArena
           created == firstTouch /\ fail # "create"
           bound == created /\ fail # "bind"
           k == FreePtrSlot
       IN  /\ fail \in {"create", "bind"} => firstTouch
           /\ follow => (fail = "none" /\ k # 0)
           /\ tstate' = [tstate EXCEPT ![t] = "live"]
           /\ cell' = IF created THEN [cell EXCEPT ![c] = Arena] ELSE cell
           /\ maps' = IF bound THEN [maps EXCEPT ![p] = BindResource(@, c, g)] ELSE maps
           /\ ptrs' = IF follow
                      THEN [ptrs EXCEPT ![k] = [t |-> t, idx |-> poolId[p], g |-> g, pool |-> p,
                                                temp |-> temp, cb |-> inCallback[p],
                                                freed |-> FALSE, status |-> "live"]]
                      ELSE ptrs
    /\ UNCHANGED <<maxPools, collection, poolVars, exitPos, ctorThrew, lockVars>>

\* MemoryPool::Free on a followed pointer: does nothing to the pool
Free(k) ==
    /\ ptrs[k].status # "none"
    /\ ~ptrs[k].freed
    /\ ptrs' = [ptrs EXCEPT ![k].freed = TRUE]
    /\ UNCHANGED <<ctorThrew, maxPools, collection, poolVars, maps, threadVars, cell,
                   lockVars>>

\* ------------------------------------------------------------------
\* Bulk reclamation
\* ------------------------------------------------------------------

\* ResourceMap::CleanTemp(useFront): the set that is walked
CleanTempCells(p) == IF useFront[p] THEN maps[p][1] ELSE maps[p][0]

\* the pool's owner may call an operation of p
Callable(p) == poolState[p] = "live" /\ ~inCallback[p]

\* MemoryPool::RegisterGC
RegisterGC(p) ==
    /\ Callable(p)
    /\ ~hasGC[p]
    /\ hasGC' = [hasGC EXCEPT ![p] = TRUE]
    /\ UNCHANGED <<ctorThrew, maxPools, collection, poolState, poolId, useFront, inCallback, maps,
                   threadVars, cell, ptrs, lockVars>>

\* MemoryPool::Clean
Clean(p) ==
    /\ Callable(p)
    /\ cell' = ResetCells(cell, CleanAllCells(p))
    /\ ptrs' = KillPtrs(ptrs, CleanAllCells(p), "clean")
    /\ UNCHANGED <<ctorThrew, maxPools, collection, poolVars, maps, threadVars, lockVars>>

\* MemoryPool::CleanTemp
CleanTemp(p) ==
    /\ Callable(p)
    /\ cell' = ResetCells(cell, CleanTempCells(p))
    /\ ptrs' = KillPtrs(ptrs, CleanTempCells(p), "clean_temp")
    /\ UNCHANGED <<ctorThrew, maxPools, collection, poolVars, maps, threadVars, lockVars>>

\* MemoryPool::GC without a registered callback running the first CleanTemp()
\* of the callback path instead of CleanAll()
GCNoCallbackCleanTemp(p) ==
    /\ Callable(p)
    /\ ~hasGC[p]
    /\ cell' = ResetCells(cell, CleanTempCells(p))
    /\ ptrs' = KillPtrs(ptrs, CleanTempCells(p), "gc")
    /\ UNCHANGED <<ctorThrew, maxPools, collection, poolVars, maps, threadVars, lockVars>>

\* MemoryPool::GC without a registered callback: CleanAll and return
GCNoCallback(p) ==
    /\ Callable(p)
    /\ ~hasGC[p]
    /\ cell' = ResetCells(cell, CleanAllCells(p))
    /\ ptrs' = KillPtrs(ptrs, CleanAllCells(p), "gc")
    /\ UNCHANGED <<ctorThrew, maxPools, collection, poolVars, maps, threadVars, lockVars>>

\* MemoryPool::GC with a callback, up to the call of gcAlgorithm():
\* CleanTemp(); useFront = !useFront
GCBegin(p) ==
    /\ Callable(p)
    /\ hasGC[p]
    /\ cell' = ResetCells(cell, CleanTempCells(p))
    /\ ptrs' = ForgetCallback(KillPtrs(ptrs, CleanTempCells(p), "gc"), p)
    /\ useFront' = [useFront EXCEPT ![p] = ~@]
    /\ inCallback' = [inCallback EXCEPT ![p] = TRUE]
    /\ UNCHANGED <<ctorThrew, maxPools, collection, poolState, poolId, hasGC, maps, threadVars,
                   lockVars>>

\* MemoryPool::GC with a callback flipping useFront back after gcAlgorithm()
GCEndFlipBack(p) ==
    /\ poolState[p] = "live"
    /\ inCallback[p]
    /\ cell' = ResetCells(cell, CleanTempCells(p))
    /\ ptrs' = KillPtrs(ptrs, CleanTempCells(p), "gc")
    /\ inCallback' = [inCallback EXCEPT ![p] = FALSE]
    /\ useFront' = [useFront EXCEPT ![p] = ~@]
    /\ UNCHANGED <<ctorThrew, maxPools, collection, poolState, poolId, hasGC, maps, threadVars,
                   lockVars>>

\* MemoryPool::GC with a callback, after gcAlgorithm() has returned: CleanTemp()
GCEnd(p) ==
    /\ poolState[p] = "live"
    /\ inCallback[p]
    /\ cell' = ResetCells(cell, CleanTempCells(p))
    /\ ptrs' = KillPtrs(ptrs, CleanTempCells(p), "gc")
    /\ inCallback' = [inCallback EXCEPT ![p] = FALSE]
    /\ UNCHANGED <<ctorThrew, maxPools, collection, poolState, poolId, useFront, hasGC, maps, threadVars,
                   lockVars>>

\* ------------------------------------------------------------------
\* Thread exit
\* ------------------------------------------------------------------

\* removeRefFromPool erasing from the set of the other generation, as if
\* ~TLSResourceArray passed useFront inverted
removeRefFromPoolOtherGen(m, coll, index, c, g) ==
    IF index \notin DOMAIN coll THEN m
    ELSE [m EXCEPT ![coll[index]] = RemoveResource(@, c, 1 - g)]

\* removeRefFromPool(index, &cell, useFront) with g = 0 for useFront, 1 otherwise
removeRefFromPool(m, coll, index, c, g) ==
    IF index \notin DOMAIN coll THEN m
    ELSE [m EXCEPT ![coll[index]] = RemoveResource(@, c, g)]

\* a thread other than the main thread returns; its TLSResourceArray, if it
\* was ever created, starts to be destroyed
ThreadExit(t) ==
    /\ t # MainThread
    /\ Running(t)
    /\ tstate' = [tstate EXCEPT ![t] = IF tstate[t] = "fresh" THEN "exited" ELSE "dtor"]
    /\ UNCHANGED <<ctorThrew, maxPools, collection, poolVars, maps, exitPos, cell, ptrs,
                   lockVars>>

\* ~TLSResourceArray: one call of removeRefFromPool of the loop
\* (call number exitPos[t]: slot i = exitPos \div 2, pointers[exitPos % 2])
TLSUnbindStep(t) ==
    /\ tstate[t] = "dtor"
    /\ exitPos[t] < 2 * maxPools
    /\ LET i == exitPos[t] \div 2
           g == exitPos[t] % 2
       IN  maps' = removeRefFromPool(maps, collection, i, <<t, i, g>>, g)
    /\ exitPos' = [exitPos EXCEPT ![t] = @ + 1]
    /\ UNCHANGED <<ctorThrew, maxPools, collection, poolVars, tstate, cell, ptrs, lockVars>>

\* ~TLSResourceArray: after the loop the members are destroyed, and with them
\* every arena the thread still owns
TLSDestroyArenas(t) ==
    /\ tstate[t] = "dtor"
    /\ exitPos[t] = 2 * maxPools
    /\ tstate' = [tstate EXCEPT ![t] = "exited"]
    /\ cell' = ResetCells(cell, CellsOf(t))
    /\ ptrs' = KillPtrs(ptrs, {c \in CellsOf(t) : cell[c] # NoArena}, "thread_exit")
    /\ UNCHANGED <<ctorThrew, maxPools, collection, poolVars, maps, exitPos, lockVars>>

\* ------------------------------------------------------------------
\* Specifications
\* ------------------------------------------------------------------

Fails == {"none", "create", "bind", "alloc"}

\* the operations on pools and threads other than allocation
PoolOrThreadStep ==
    \/ Construct
    \/ \E p \in PoolObjs : DestroyCleanAll(p)
    \/ \E p \in PoolObjs : DestroyFreeId(p)
    \/ \E p \in PoolObjs : RegisterGC(p)
    \/ \E p \in PoolObjs : Clean(p)
    \/ \E p \in PoolObjs : CleanTemp(p)
    \/ \E p \in PoolObjs : GCNoCallback(p)
    \/ \E p \in PoolObjs : GCBegin(p)
    \/ \E p \in PoolObjs : GCEnd(p)
    \/ \E t \in Threads : ThreadExit(t)
    \/ \E t \in Threads : TLSUnbindStep(t)
    \/ \E t \in Threads : TLSDestroyArenas(t)

\* an allocation that succeeds
MallocStep ==
    \E t \in Threads, p \in PoolObjs, temp \in BOOLEAN : Malloc(t, p, temp, "none", FALSE)

Next == PoolOrThreadStep \/ MallocStep

\* every operation of NPoolObjs pools with allocations that succeed
Spec == Init /\ [][Next]_vars

\* an allocation that may throw std::bad_alloc at any of its three allocations
MallocFailStep ==
    \E t \in Threads, p \in PoolObjs, temp \in BOOLEAN, fail \in Fails :
        Malloc(t, p, temp, fail, FALSE)

NextOOM == PoolOrThreadStep \/ MallocFailStep

\* every operation of NPoolObjsSmall pools with allocations that may fail
SpecOOM == InitSmall /\ [][NextOOM]_vars

\* an allocation that succeeds, whose pointer may be followed
MallocFollowStep ==
    \E t \in Threads, p \in PoolObjs, temp \in BOOLEAN, follow \in BOOLEAN :
        Malloc(t, p, temp, "none", follow)

NextPtr ==
    \/ PoolOrThreadStep
    \/ MallocFollowStep
    \/ \E k \in DOMAIN ptrs : Free(k)

\* every operation of NPoolObjsSmall pools, following returned pointers
SpecPtr == InitSmall /\ [][NextPtr]_vars

NextIds ==
    \/ Construct
    \/ ConstructThrow
    \/ \E p \in PoolObjs : DestroyCleanAll(p)
    \/ \E p \in PoolObjs : DestroyFreeId(p)

SpecIds == InitIds /\ [][NextIds]_vars

InitIdsMax == InitWith(MaxPoolsCfg, MaxPoolsCfg + ExtraPools)

SpecIdsMax == InitIdsMax /\ [][NextIds]_vars

\* ------------------------------------------------------------------
\* The same operations statement by statement, with their locks
\* ------------------------------------------------------------------

\* thread t is outside every library call
AtIdle(t) == pc[t].op = "idle"

\* the thread that owns the pools: it constructs and destroys them and calls
\* Clean, CleanTemp and GC
Owner == MainThread

\* some thread is inside the first-touch block of GetResourcePointer for pool p
Binding(p) == \E t \in Threads : pc[t].op \in {"create", "bind_lock", "bind_read", "bind_write",
                                                   "slot_unlock"} /\ pc[t].p = p

\* GetResourcePointer finds the handle null and takes protectMtx of the cell
\* (a non-null handle is returned without any lock and changes nothing)
AllocLockSlot(t, p, temp) ==
    /\ AtIdle(t)
    /\ Running(t)
    /\ poolState[p] = "live"
    /\ poolId[p] < maxPools
    /\ walk.p # p
    /\ LET g == SlotOf(useFront[p], temp)
           c == <<t, poolId[p], g>>
       IN  /\ cell[c] = NoArena
           /\ slotMutex[c] = 0
           /\ slotMutex' = [slotMutex EXCEPT ![c] = t]
           /\ pc' = [pc EXCEPT ![t] = [op |-> "create", p |-> p, g |-> g, seen |-> {}]]
    /\ tstate' = [tstate EXCEPT ![t] = "live"]
    /\ UNCHANGED <<maxPools, collection, poolVars, maps, exitPos, cell, ptrs, ctorThrew,
                   gMutex, collMutex, walk>>

\* GetResourcePointer under protectMtx: the second test of the handle and
\* make_unique<Resource>
AllocCreate(t) ==
    /\ pc[t].op = "create"
    /\ LET c == <<t, poolId[pc[t].p], pc[t].g>>
       IN  IF cell[c] = NoArena
           THEN /\ cell' = [cell EXCEPT ![c] = Arena]
                /\ pc' = [pc EXCEPT ![t].op = "bind_lock"]
           ELSE /\ cell' = cell
                /\ pc' = [pc EXCEPT ![t].op = "slot_unlock"]
    /\ UNCHANGED <<maxPools, collection, poolVars, maps, threadVars, ptrs, ctorThrew,
                   gMutex, collMutex, slotMutex, walk>>

\* ResourceMap::BindResource entered without taking collectionMutex
BindNoLock(t) ==
    /\ pc[t].op = "bind_lock"
    /\ pc' = [pc EXCEPT ![t].op = "bind_read"]
    /\ UNCHANGED <<maxPools, collection, poolVars, maps, threadVars, cell, ptrs, ctorThrew,
                   gMutex, collMutex, slotMutex, walk>>

\* ResourceMap::BindResource guarding the set with the mutex of the registry
\* instead of collectionMutex
BindLockGlobal(t) ==
    /\ pc[t].op = "bind_lock"
    /\ gMutex = 0
    /\ gMutex' = t
    /\ pc' = [pc EXCEPT ![t].op = "bind_read"]
    /\ UNCHANGED <<maxPools, collection, poolVars, maps, threadVars, cell, ptrs, ctorThrew,
                   collMutex, slotMutex, walk>>

\* ResourceMap::BindResource: std::lock_guard lk(useMutex)
BindLock(t) ==
    /\ pc[t].op = "bind_lock"
    /\ collMutex[pc[t].p][pc[t].g] = 0
    /\ collMutex' = [collMutex EXCEPT ![pc[t].p][pc[t].g] = t]
    /\ pc' = [pc EXCEPT ![t].op = "bind_read"]
    /\ UNCHANGED <<maxPools, collection, poolVars, maps, threadVars, cell, ptrs, ctorThrew,
                   gMutex, slotMutex, walk>>

\* ResourceMap::BindResource looking the pool up in the registry, under its
\* mutex, while it holds collectionMutex
BindReadUnderGlobal(t) ==
    /\ pc[t].op = "bind_read"
    /\ gMutex = 0
    /\ pc' = [pc EXCEPT ![t].op = "bind_write", ![t].seen = maps[pc[t].p][pc[t].g]]
    /\ UNCHANGED <<maxPools, collection, poolVars, maps, threadVars, cell, ptrs, ctorThrew,
                   gMutex, collMutex, slotMutex, walk>>

\* ResourceMap::BindResource: insert reads the set ...
BindRead(t) ==
    /\ pc[t].op = "bind_read"
    /\ pc' = [pc EXCEPT ![t].op = "bind_write", ![t].seen = maps[pc[t].p][pc[t].g]]
    /\ UNCHANGED <<maxPools, collection, poolVars, maps, threadVars, cell, ptrs, ctorThrew,
                   gMutex, collMutex, slotMutex, walk>>

\* ... and writes it with the handle added; the guard releases collectionMutex
BindWrite(t) ==
    /\ pc[t].op = "bind_write"
    /\ LET p == pc[t].p
           g == pc[t].g
       IN  /\ maps' = [maps EXCEPT ![p] = BindResource([@ EXCEPT ![g] = pc[t].seen],
                                                        <<t, poolId[p], g>>, g)]
           /\ collMutex' = [collMutex EXCEPT ![p][g] = IF @ = t THEN 0 ELSE @]
    /\ pc' = [pc EXCEPT ![t].op = "slot_unlock", ![t].seen = {}]
    /\ UNCHANGED <<maxPools, collection, poolVars, threadVars, cell, ptrs, ctorThrew,
                   gMutex, slotMutex, walk>>

\* GetResourcePointer: the guard releases protectMtx; the arena is returned
AllocUnlockSlot(t) ==
    /\ pc[t].op = "slot_unlock"
    /\ slotMutex' = [slotMutex EXCEPT ![<<t, poolId[pc[t].p], pc[t].g>>] = 0]
    /\ pc' = [pc EXCEPT ![t] = Idle]
    /\ UNCHANGED <<maxPools, collection, poolVars, maps, threadVars, cell, ptrs, ctorThrew,
                   gMutex, collMutex, walk>>

\* the handle cell the current call of removeRefFromPool by thread t is about
ExitCell(t) == <<t, exitPos[t] \div 2, exitPos[t] % 2>>

\* removeRefFromPool: std::lock_guard lk(mutex)
RemoveRefLock(t) ==
    /\ tstate[t] = "dtor"
    /\ AtIdle(t)
    /\ exitPos[t] < 2 * maxPools
    /\ gMutex = 0
    /\ gMutex' = t
    /\ pc' = [pc EXCEPT ![t] = [op |-> "rr_find", p |-> 0, g |-> exitPos[t] % 2, seen |-> {}]]
    /\ UNCHANGED <<maxPools, collection, poolVars, maps, threadVars, cell, ptrs, ctorThrew,
                   collMutex, slotMutex, walk>>

\* removeRefFromPool that finds no entry for any index and returns
RemoveRefFindNothing(t) ==
    /\ pc[t].op = "rr_find"
    /\ pc' = [pc EXCEPT ![t] = Idle]
    /\ gMutex' = 0
    /\ exitPos' = [exitPos EXCEPT ![t] = @ + 1]
    /\ UNCHANGED <<maxPools, collection, poolVars, maps, tstate, cell, ptrs, ctorThrew,
                   collMutex, slotMutex, walk>>

\* removeRefFromPool: collection.find(index); returns when there is no entry
RemoveRefFind(t) ==
    /\ pc[t].op = "rr_find"
    /\ LET index == exitPos[t] \div 2
       IN  IF index \in DOMAIN collection
           THEN /\ pc' = [pc EXCEPT ![t].op = "rr_lock", ![t].p = collection[index]]
                /\ UNCHANGED <<gMutex, exitPos>>
           ELSE /\ pc' = [pc EXCEPT ![t] = Idle]
                /\ gMutex' = 0
                /\ exitPos' = [exitPos EXCEPT ![t] = @ + 1]
    /\ UNCHANGED <<maxPools, collection, poolVars, maps, tstate, cell, ptrs, ctorThrew,
                   collMutex, slotMutex, walk>>

\* ResourceMap::RemoveResource: std::lock_guard lk(useMutex)
RemoveRefLockSet(t) ==
    /\ pc[t].op = "rr_lock"
    /\ collMutex[pc[t].p][pc[t].g] = 0
    /\ collMutex' = [collMutex EXCEPT ![pc[t].p][pc[t].g] = t]
    /\ pc' = [pc EXCEPT ![t].op = "rr_erase"]
    /\ UNCHANGED <<maxPools, collection, poolVars, maps, threadVars, cell, ptrs, ctorThrew,
                   gMutex, slotMutex, walk>>

\* ResourceMap::RemoveResource: erase; both guards release their mutexes
RemoveRefErase(t) ==
    /\ pc[t].op = "rr_erase"
    /\ maps' = removeRefFromPool(maps, collection, exitPos[t] \div 2, ExitCell(t), pc[t].g)
    /\ collMutex' = [collMutex EXCEPT ![pc[t].p][pc[t].g] = 0]
    /\ gMutex' = 0
    /\ exitPos' = [exitPos EXCEPT ![t] = @ + 1]
    /\ pc' = [pc EXCEPT ![t] = Idle]
    /\ UNCHANGED <<maxPools, collection, poolVars, tstate, cell, ptrs, ctorThrew,
                   slotMutex, walk>>

\* QueryFreeMemoryPoolId: std::lock_guard lk(mutex)
CtorLock(t) ==
    /\ t = Owner
    /\ AtIdle(t)
    /\ \E p \in PoolObjs : poolState[p] = "unborn"
    /\ gMutex = 0
    /\ gMutex' = t
    /\ pc' = [pc EXCEPT ![t] = [op |-> "ctor", p |-> NextPool, g |-> 0, seen |-> {}]]
    /\ UNCHANGED <<maxPools, collection, poolVars, maps, threadVars, cell, ptrs, ctorThrew,
                   collMutex, slotMutex, walk>>

\* QueryFreeMemoryPoolId under the mutex: inserts and returns the id, or throws
CtorQuery(t) ==
    /\ pc[t].op = "ctor"
    /\ LET p == pc[t].p
           r == QueryFreeMemoryPoolId(collection, maxPools)
       IN  IF r.throws
           THEN /\ ctorThrew' = TRUE
                /\ UNCHANGED <<collection, poolState, poolId>>
           ELSE /\ collection' = MapInsert(collection, r.id, p)
                /\ poolState' = [poolState EXCEPT ![p] = "live"]
                /\ poolId' = [poolId EXCEPT ![p] = r.id]
                /\ ctorThrew' = FALSE
    /\ gMutex' = 0
    /\ pc' = [pc EXCEPT ![t] = Idle]
    /\ UNCHANGED <<maxPools, useFront, hasGC, inCallback, maps, threadVars, cell, ptrs,
                   collMutex, slotMutex, walk>>

\* FreeMemoryPoolId entered without taking the mutex
DtorNoLock(t) ==
    /\ pc[t].op = "dtor_lock"
    /\ pc' = [pc EXCEPT ![t].op = "dtor_erase"]
    /\ UNCHANGED <<maxPools, collection, poolVars, maps, threadVars, cell, ptrs, ctorThrew,
                   gMutex, collMutex, slotMutex, walk>>

\* FreeMemoryPoolId: std::lock_guard lk(mutex)
DtorLock(t) ==
    /\ pc[t].op = "dtor_lock"
    /\ gMutex = 0
    /\ gMutex' = t
    /\ pc' = [pc EXCEPT ![t].op = "dtor_erase"]
    /\ UNCHANGED <<maxPools, collection, poolVars, maps, threadVars, cell, ptrs, ctorThrew,
                   collMutex, slotMutex, walk>>

\* FreeMemoryPoolId under the mutex: erase; then ~MemoryPool destroys pImpl
DtorErase(t) ==
    /\ pc[t].op = "dtor_erase"
    /\ LET p == pc[t].p
       IN  /\ collection' = FreeMemoryPoolId(collection, poolId[p])
           /\ poolState' = [poolState EXCEPT ![p] = "unborn"]
           /\ useFront' = [useFront EXCEPT ![p] = TRUE]
           /\ hasGC' = [hasGC EXCEPT ![p] = FALSE]
           /\ maps' = [maps EXCEPT ![p] = [g \in Gens |-> {}]]
    /\ ctorThrew' = FALSE
    /\ gMutex' = 0
    /\ pc' = [pc EXCEPT ![t] = Idle]
    /\ UNCHANGED <<maxPools, poolId, inCallback, threadVars, cell, ptrs,
                   collMutex, slotMutex, walk>>

\* the kinds of range-for: "clean" (Clean, and GC without a callback),
\* "clean_temp" (CleanTemp), "gc1" and "gc2" (the CleanTemp of GC before the
\* flip and after the callback), "dtor" (the CleanAll of ~MemoryPool)
WalkKinds == {"clean", "clean_temp", "gc1", "gc2", "dtor"}

\* the handles of the sets the range-for of this kind goes over, as they are now
WalkSets(kind, p) == IF kind \in {"clean", "dtor"} THEN CleanAllCells(p) ELSE CleanTempCells(p)

\* Clean, CleanTemp, GC or ~MemoryPool starts a range-for over the registry
\* sets of pool p. No lock is taken. The caller has made sure that no thread
\* is allocating on the pool.
WalkBegin(t, p, kind) ==
    /\ t = Owner
    /\ AtIdle(t)
    /\ Running(t)
    /\ walk.kind = "none"
    /\ poolState[p] = "live"
    /\ ~Binding(p)
    /\ IF kind = "gc2" THEN inCallback[p] ELSE ~inCallback[p]
    /\ kind = "gc1" => hasGC[p]
    /\ walk' = [kind |-> kind, p |-> p, todo |-> WalkSets(kind, p), visited |-> {}]
    /\ pc' = [pc EXCEPT ![t] = [op |-> "walk", p |-> p, g |-> 0, seen |-> {}]]
    /\ poolState' = [poolState EXCEPT ![p] = IF kind = "dtor" THEN "dying" ELSE @]
    /\ ctorThrew' = IF kind = "dtor" THEN FALSE ELSE ctorThrew
    /\ UNCHANGED <<maxPools, collection, poolId, useFront, hasGC, inCallback, maps, threadVars,
                   cell, ptrs, gMutex, collMutex, slotMutex>>

\* one iteration of the range-for: resource->reset() on a handle of the set.
\* When the set is modified during the loop the behaviour is undefined: the
\* loop may go over the elements the set had when it started or over those it
\* has now.
WalkVisit(t, c) ==
    /\ pc[t].op = "walk"
    /\ c \in (walk.todo \cup WalkSets(walk.kind, walk.p)) \ walk.visited
    /\ cell' = ResetCells(cell, {c})
    /\ walk' = [walk EXCEPT !.visited = @ \cup {c}]
    /\ UNCHANGED <<maxPools, collection, poolVars, maps, threadVars, ptrs, ctorThrew,
                   pc, gMutex, collMutex, slotMutex>>

\* the range-for ends; GC flips useFront and calls the callback after its
\* first loop and returns after its second, ~MemoryPool goes on to
\* FreeMemoryPoolId
WalkEnd(t) ==
    /\ pc[t].op = "walk"
    /\ walk.todo \subseteq walk.visited \/ WalkSets(walk.kind, walk.p) \subseteq walk.visited
    /\ walk' = NoWalk
    /\ pc' = [pc EXCEPT ![t] = IF walk.kind = "dtor" THEN [@ EXCEPT !.op = "dtor_lock"] ELSE Idle]
    /\ useFront' = [useFront EXCEPT ![walk.p] = IF walk.kind = "gc1" THEN ~@ ELSE @]
    /\ inCallback' = [inCallback EXCEPT ![walk.p] =
                          IF walk.kind = "gc1" THEN TRUE ELSE IF walk.kind = "gc2" THEN FALSE ELSE @]
    /\ UNCHANGED <<maxPools, collection, poolState, poolId, hasGC, maps, threadVars, cell, ptrs,
                   ctorThrew, gMutex, collMutex, slotMutex>>

\* the steps of a thread inside or entering a library call; kinds are the
\* range-fors the owner may start
ThreadStep(t, kinds) ==
    \/ \E p \in PoolObjs, temp \in BOOLEAN : AllocLockSlot(t, p, temp)
    \/ AllocCreate(t)
    \/ BindLock(t)
    \/ BindRead(t)
    \/ BindWrite(t)
    \/ AllocUnlockSlot(t)
    \/ AtIdle(t) /\ ThreadExit(t)
    \/ RemoveRefLock(t)
    \/ RemoveRefFind(t)
    \/ RemoveRefLockSet(t)
    \/ RemoveRefErase(t)
    \/ TLSDestroyArenas(t)
    \/ CtorLock(t)
    \/ CtorQuery(t)
    \/ \E p \in PoolObjs, kind \in kinds : WalkBegin(t, p, kind)
    \/ \E c \in AllCells : WalkVisit(t, c)
    \/ WalkEnd(t)
    \/ DtorLock(t)
    \/ DtorErase(t)

NextLock ==
    \/ \E t \in Threads : ThreadStep(t, WalkKinds)
    \/ \E p \in PoolObjs : AtIdle(Owner) /\ RegisterGC(p)

\* every operation statement by statement, on NPoolObjsSmall pools
SpecLock == InitSmall /\ [][NextLock]_vars

NextLockPools == \E t \in Threads : ThreadStep(t, {"dtor"})

\* construction, destruction, first-touch allocation and thread exit statement
\* by statement, on NPoolObjs pools
SpecLockPools == Init /\ [][NextLockPools]_vars

\* ------------------------------------------------------------------
\* Claims about the id registry
\* ------------------------------------------------------------------

\* a step in which some MemoryPool constructor returned
PoolBorn(p) == poolState[p] = "unborn" /\ poolState'[p] = "live"

\* a step that is a call of the MemoryPool constructor
ConstructorCall == (ctorThrew' /\ ~ctorThrew) \/ \E p \in PoolObjs : PoolBorn(p)

FreeIds == (0..(maxPools - 1)) \ LiveIds

\* C1: every pool construction issues the smallest id of [0, MAX_POOLS) that
\* no live pool holds (after ids 0,1,2 and the destruction of 1, the next is 1).
C1_SmallestFreeId ==
    [][\A p \in PoolObjs : PoolBorn(p) =>
          /\ FreeIds # {}
          /\ poolId'[p] = Min(FreeIds)]_vars

\* C2: when all but one id of [0, MAX_POOLS) are live (one pool of a full
\* registry was destroyed), the next construction succeeds and receives
\* exactly the missing id.
C2_ReuseDestroyedId ==
    [][(/\ LiveIds \subseteq 0..(maxPools - 1)
        /\ Cardinality(LiveIds) = maxPools - 1
        /\ ConstructorCall)
       => \E p \in PoolObjs : PoolBorn(p) /\ {poolId'[p]} = FreeIds]_vars

\* C9: a construction while MAX_POOLS pools are live throws pool-exhausted
\* and leaves the live ids and every registry entry as they were.
C9_ExhaustedLeavesRegistry ==
    [][(Cardinality(LiveIds) = maxPools /\ ConstructorCall)
       => /\ ctorThrew'
          /\ UNCHANGED <<collection, poolVars, maps>>]_vars

\* C10: every id held by a live pool lies in [0, MAX_POOLS) and no two live
\* pools hold the same id, for every MAX_POOLS >= 1.
C10_IdsInRangeAndDistinct ==
    /\ \A p \in LivePools : poolId[p] \in 0..(maxPools - 1)
    /\ \A p, q \in LivePools : p # q => poolId[p] # poolId[q]

\* no MemoryPool destructor is between CleanAll and FreeMemoryPoolId
NoDying == \A p \in PoolObjs : poolState[p] # "dying"

\* C11 as stated: after any sequence of pool creations and destructions the
\* live ids are {0, ..., k-1}, k the number of live pools.
C11_DenseLiveIds ==
    NoDying => LiveIds = 0..(Cardinality(LivePools) - 1)

\* the keys of the registry are {0, ..., k-1}, one per constructed pool
DenseKeys ==
    /\ LiveIds = 0..(Cardinality(LiveIds) - 1)
    /\ Cardinality(LiveIds) = Cardinality({p \in PoolObjs : poolState[p] # "unborn"})

\* a step in which the destructor of the pool with the largest live id
\* gives its id back
TopDestroyed(p) ==
    /\ poolState[p] = "dying"
    /\ poolState'[p] = "unborn"
    /\ poolId[p] = Max(LiveIds)

\* C11 amended: as long as every destruction removes the pool with the largest
\* live id (in particular after creations only), the live ids are
\* {0, ..., k-1}: a construction or such a destruction keeps them so.
C11_DenseWhenTopDestroyed ==
    [][(DenseKeys /\ \E p \in PoolObjs : PoolBorn(p) \/ TopDestroyed(p)) => DenseKeys']_vars

\* C11 witness: three or more pools hold the ids {0, ..., k-1}
C11_Witness ==
    /\ Cardinality(LivePools) >= 3
    /\ NoDying
    /\ DenseKeys

\* ------------------------------------------------------------------
\* Claims about pointers, generations and the registry sets
\* ------------------------------------------------------------------

\* C3: a returned pointer stays valid until a clean, a clean_temp on its
\* generation, a gc that retires its generation or the destruction of its pool:
\* the arena that holds it is released by none other event, in particular not
\* by the exit of the thread that allocated it.
C3_PointerValidUntilReclaim ==
    \A k \in DOMAIN ptrs :
        ptrs[k].status \in {"none", "live", "clean", "clean_temp", "gc", "destroy"}

\* index of the generation that was active before the gc in progress on p
OldGen(p) == IF useFront[p] THEN 1 ELSE 0

\* index of the generation default allocations on p use
ActiveGen(p) == IF useFront[p] THEN 0 ELSE 1

\* C4: while the callback of gc() runs, no arena of the generation that was
\* active before the gc is released, and every default allocation goes to the
\* other generation.
C4_OldGenerationSurvivesCallback ==
    [][\A p \in PoolObjs : (inCallback[p] /\ inCallback'[p]) =>
          \A k \in DOMAIN ptrs :
              /\ (ptrs[k].pool = p /\ ~ptrs[k].cb /\ ptrs[k].g = OldGen(p)
                      /\ ptrs[k].status = "live")
                    => ptrs'[k].status = "live"
              /\ (ptrs'[k].pool = p /\ ptrs'[k].cb /\ ~ptrs'[k].temp)
                    => ptrs'[k].g = ActiveGen(p)]_vars

\* C5: when gc() with a callback returns, every arena that held data before
\* the gc is released (in every thread that is not exiting) and every object
\* the callback allocated with the default policy is in a live arena.
C5_GCKeepsCallbackObjects ==
    [][\A p \in PoolObjs : (inCallback[p] /\ ~inCallback'[p]) =>
          \A k \in DOMAIN ptrs :
              ptrs[k].pool = p =>
                  /\ (ptrs[k].cb /\ ~ptrs[k].temp) => ptrs'[k].status = "live"
                  /\ (~ptrs[k].cb /\ Running(ptrs[k].t)) => ptrs'[k].status # "live"]_vars

\* no operation is in progress
Quiescent ==
    /\ \A p \in PoolObjs : poolState[p] # "dying" /\ ~inCallback[p]
    /\ \A t \in Threads : tstate[t] # "dtor"

\* the handle cells of generation g under the id of pool p that hold an arena
BoundCells(p, g) == {c \in AllCells : c[2] = poolId[p] /\ c[3] = g /\ cell[c] # NoArena}

\* C6: at every quiescent point the registry set of (p, g) is exactly the set
\* of handle cells whose arena for (p, g) is non-null.
C6_RegistryEqualsNonNull ==
    Quiescent => \A p \in LivePools : \A g \in Gens : maps[p][g] = BoundCells(p, g)

\* ~TLSResourceArray of thread t has made all its removeRefFromPool calls
Unbound(t) == tstate[t] = "exited" \/ (tstate[t] = "dtor" /\ exitPos[t] = 2 * maxPools)

\* C7: once the teardown of a thread is over, no registry set of any pool holds
\* a handle cell of that thread, so no clean, clean_temp, gc or destruction
\* walks one.
C7_NoCellOfExitedThread ==
    \A p \in PoolObjs : \A g \in Gens : \A c \in maps[p][g] : ~Unbound(c[1])

\* C7 witness: a thread whose arena under a live pool still exists has finished
\* unbinding
C7_Witness ==
    \E t \in Threads, p \in LivePools, g \in Gens :
        /\ tstate[t] = "dtor"
        /\ exitPos[t] = 2 * maxPools
        /\ cell[<<t, poolId[p], g>>] # NoArena

\* C8: an allocation that throws leaves the slot entry of the calling thread
\* and the registry sets as they were.
C8_FailedAllocationChangesNothing ==
    [][\A t \in Threads, p \in PoolObjs, temp \in BOOLEAN, fail \in {"create", "bind", "alloc"} :
          Malloc(t, p, temp, fail, FALSE) => UNCHANGED <<cell, maps>>]_vars

\* ------------------------------------------------------------------
\* Claims about slots, reclamation and frames
\* ------------------------------------------------------------------

\* the generation index the specification assigns to an entry point:
\* `active` for allocate, `1 - active` for allocate_temp
GenOfEntryPoint(p, temp) == IF temp THEN 1 - ActiveGen(p) ELSE ActiveGen(p)

\* C12: allocate uses the calling thread's arena in slot `active` of the
\* pool's slot entry and allocate_temp the one in slot `1 - active`; the two
\* never use the same slot, and a first-touch bind registers the handle in the
\* registry set of the generation index of the slot that was filled, and in
\* no other set.
C12_EntryPointsPickSlots ==
    [][\A t \in Threads, p \in PoolObjs, temp \in BOOLEAN :
          Malloc(t, p, temp, "none", FALSE) =>
              LET g == GenOfEntryPoint(p, temp)
                  c == <<t, poolId[p], g>>
              IN  /\ cell'[c] = Arena
                  /\ \A x \in DOMAIN cell : x # c => cell'[x] = cell[x]
                  /\ cell[c] = NoArena => c \in maps'[p][g]
                  /\ maps'[p][1 - g] = maps[p][1 - g]
                  /\ \A q \in PoolObjs : q # p => maps'[q] = maps[q]
                  /\ GenOfEntryPoint(p, ~temp) # g]_vars

\* C12 witness: after a gc has flipped the active generation, a thread holds
\* an arena in both slots of a pool, each registered in the set of its own
\* generation only
C12_Witness ==
    \E t \in Threads, p \in LivePools :
        /\ ~useFront[p]
        /\ \A g \in Gens :
              /\ cell[<<t, poolId[p], g>>] = Arena
              /\ <<t, poolId[p], g>> \in maps[p][g]
              /\ <<t, poolId[p], g>> \notin maps[p][1 - g]

\* the handle cell of thread t for generation g under the id of pool p
CellOf(t, p, g) == <<t, poolId[p], g>>

\* C13: clean_temp() on a pool releases, in every thread that is not exiting,
\* the arena of the pool's inactive generation, and leaves every arena of the
\* active generation and every pointer allocated from it untouched, whatever
\* the value of the active bit.
C13_CleanTempReleasesInactiveOnly ==
    [][\A p \in PoolObjs : CleanTemp(p) =>
          /\ \A t \in Threads :
                /\ Running(t) => cell'[CellOf(t, p, 1 - ActiveGen(p))] = NoArena
                /\ cell'[CellOf(t, p, ActiveGen(p))] = cell[CellOf(t, p, ActiveGen(p))]
          /\ \A k \in DOMAIN ptrs :
                (ptrs[k].pool = p /\ ptrs[k].g = ActiveGen(p)) => ptrs'[k] = ptrs[k]]_vars

\* C14: clean() on a pool releases the arenas of both generations in every
\* thread that is still alive, so that afterwards no pointer the pool
\* produced for such a thread is backed by a live arena.
C14_CleanReleasesEverything ==
    [][\A p \in PoolObjs : Clean(p) =>
          /\ \A t \in Threads : \A g \in Gens :
                Running(t) => cell'[CellOf(t, p, g)] = NoArena
          /\ \A k \in DOMAIN ptrs :
                (ptrs[k].pool = p /\ Running(ptrs[k].t)) => ptrs'[k].status # "live"]_vars

\* the handle cells under the id of pool q, and what q owns besides
FrameOf(q) == <<[c \in {x \in AllCells : x[2] = poolId[q]} |-> cell[c]],
                maps[q], useFront[q], hasGC[q], poolId[q], poolState[q]>>

\* a step of clean, clean_temp, gc or the destructor of pool p
ReclaimStep(p) ==
    \/ Clean(p)
    \/ CleanTemp(p)
    \/ GCNoCallback(p)
    \/ GCBegin(p)
    \/ GCEnd(p)
    \/ DestroyCleanAll(p)
    \/ DestroyFreeId(p)

\* C15: clean, clean_temp, gc and destruction of pool A leave every arena,
\* slot cell and registry set and the active bit of every other live pool B
\* unchanged, in every thread.
C15_OtherPoolsUntouched ==
    [][\A p \in PoolObjs : ReclaimStep(p) =>
          \A q \in LivePools : q # p => FrameOf(q)' = FrameOf(q)]_vars

\* C15 witness: pool A has been reclaimed (its registered handles are null)
\* while a thread that allocated on both still holds its arena of pool B
C15_Witness ==
    \E p \in LivePools, q \in LivePools, t \in Threads :
        /\ p # q
        /\ CellOf(t, p, 0) \in maps[p][0]
        /\ cell[CellOf(t, p, 0)] = NoArena
        /\ CellOf(t, q, 0) \in maps[q][0]
        /\ cell[CellOf(t, q, 0)] = Arena

\* C16: gc() on a pool with no registered callback produces exactly the state
\* clean() produces: every step of it is a step of clean(), and the active
\* bit is not flipped.
C16_GCWithoutCallbackIsClean ==
    [][\A p \in PoolObjs : GCNoCallback(p) =>
          /\ Clean(p)
          /\ useFront'[p] = useFront[p]]_vars

\* C16 witness: a pool without callback whose registered handles of both
\* generations have been released, the active bit still at generation 0
C16_Witness ==
    \E p \in LivePools, t \in Threads :
        /\ ~hasGC[p]
        /\ useFront[p]
        /\ \A g \in Gens : CellOf(t, p, g) \in maps[p][g] /\ cell[CellOf(t, p, g)] = NoArena

\* the arena the next allocation of thread t on (p, g) uses is registered with
\* the pool: either the handle is null, so that the allocation creates and
\* binds an arena, or it is in the registry set
ServedRegistered(t, p, g) ==
    cell[CellOf(t, p, g)] = NoArena \/ CellOf(t, p, g) \in maps[p][g]

\* C17: clean() twice leaves the state of clean() once, and likewise
\* clean_temp(); after clean() the next allocate or allocate_temp of any
\* thread succeeds and returns memory of a live arena registered with the pool.
C17_CleanIdempotentThenAllocate ==
    [][\A p \in PoolObjs :
          /\ Clean(p) =>
                /\ ResetCells(cell', CleanAllCells(p)') = cell'
                /\ KillPtrs(ptrs', CleanAllCells(p)', "clean") = ptrs'
                /\ \A t \in Threads : \A g \in Gens :
                      Running(t) => ServedRegistered(t, p, g)'
          /\ CleanTemp(p) =>
                /\ ResetCells(cell', CleanTempCells(p)') = cell'
                /\ KillPtrs(ptrs', CleanTempCells(p)', "clean_temp") = ptrs'
          /\ \A t \in Threads : \A temp \in BOOLEAN :
                (Malloc(t, p, temp, "none", FALSE) /\ ServedRegistered(t, p, GenOfEntryPoint(p, temp)))
                    => /\ cell'[CellOf(t, p, GenOfEntryPoint(p, temp))] = Arena
                       /\ CellOf(t, p, GenOfEntryPoint(p, temp)) \in
                              maps'[p][GenOfEntryPoint(p, temp)]]_vars

\* C18: the destructor of a pool releases and nulls, in every live thread, the
\* arenas of both generations under the pool's id and removes the registry
\* entry: when it returns, the retired id has no registry entry and no slot
\* entry of a live thread at that id holds an arena.
C18_DestroyLeavesNothing ==
    [][\A p \in PoolObjs : DestroyFreeId(p) =>
          /\ poolId[p] \notin DOMAIN collection'
          /\ \A t \in Threads : \A g \in Gens :
                Running(t) => cell'[CellOf(t, p, g)] = NoArena
          /\ \A k \in DOMAIN ptrs :
                (ptrs[k].pool = p /\ Running(ptrs[k].t)) => ptrs'[k].status # "live"]_vars

\* C19: every arena handle belongs to one (thread, pool id, generation)
\* triple: a registered handle is the cell of the pool's id and of the set's
\* generation, so that no handle is in the sets of two live pools or in both
\* sets of one pool; two threads have different cells for the same pool and
\* generation, so that their allocations are never served by the same arena.
C19_HandleOwnedByOneTriple ==
    /\ \A p \in PoolObjs : \A g \in Gens : \A c \in maps[p][g] :
          c[2] = poolId[p] /\ c[3] = g
    /\ \A p \in LivePools : maps[p][0] \cap maps[p][1] = {}
    /\ \A p \in LivePools : \A q \in LivePools : \A g \in Gens : \A h \in Gens :
          p # q => maps[p][g] \cap maps[q][h] = {}
    /\ \A p \in LivePools : \A g \in Gens : \A t \in Threads : \A u \in Threads :
          t # u => CellOf(t, p, g) # CellOf(u, p, g)

\* C19 witness: two threads are bound to the same pool and generation, and one
\* of them also to the other generation and to a second pool
C19_Witness ==
    \E p \in LivePools, q \in LivePools, t \in Threads, u \in Threads :
        /\ p # q
        /\ t # u
        /\ CellOf(t, p, 0) \in maps[p][0]
        /\ CellOf(u, p, 0) \in maps[p][0]
        /\ CellOf(t, p, 1) \in maps[p][1]
        /\ CellOf(t, q, 0) \in maps[q][0]

\* C20: the active bit of a pool starts at generation 0 and is written only
\* by gc() with a registered callback, which flips it once, before the
\* callback; allocate, allocate_temp, free, register_gc, clean, clean_temp and
\* gc() without a callback leave it unchanged.
C20_ActiveBitWrittenOnlyByGC ==
    [][\A p \in PoolObjs :
          /\ PoolBorn(p) => useFront'[p]
          /\ (poolState[p] = "live" /\ poolState'[p] = "live" /\ useFront'[p] # useFront[p])
                => GCBegin(p)
          /\ GCBegin(p) => useFront'[p] = ~useFront[p]
          /\ GCEnd(p) => useFront'[p] = useFront[p]]_vars

\* C20 witness: a gc with a callback has returned and left generation 1 active
C20_Witness ==
    \E p \in LivePools : hasGC[p] /\ ~inCallback[p] /\ ~useFront[p]

\* ------------------------------------------------------------------
\* Claims about locks and interleavings
\* ------------------------------------------------------------------

\* C21: the range-fors of clean, clean_temp, gc and the destructor exclude
\* bind and thread-exit unbind: no handle is dereferenced after its thread has
\* unbound it and destroyed its slot table, and no set of the pool is modified
\* while it is walked.
C21_EnumerationsExcludeUnbind ==
    [][/\ \A c \in AllCells : WalkVisit(Owner, c) =>
             /\ tstate[c[1]] # "exited"
             /\ c \in WalkSets(walk.kind, walk.p)
       /\ (walk.kind # "none" /\ walk'.kind # "none") => maps'[walk.p] = maps[walk.p]]_vars

\* C22: during thread-exit teardown every handle of the thread is removed
\* from the registry set of the live pool with its id before the arenas are
\* destroyed: when they are destroyed no set holds a handle of the thread.
C22_UnbindBeforeArenaDestroyed ==
    [][\A t \in Threads : TLSDestroyArenas(t) =>
          \A p \in PoolObjs : \A g \in Gens : \A c \in maps[p][g] : c[1] # t]_vars

\* C22 witness: the loop of ~TLSResourceArray is over, the arena the thread
\* had bound to a live pool is about to be destroyed and is unbound
C22_Witness ==
    \E t \in Threads, p \in LivePools :
        /\ tstate[t] = "dtor"
        /\ AtIdle(t)
        /\ exitPos[t] = 2 * maxPools
        /\ gMutex = 0
        /\ cell[CellOf(t, p, 0)] = Arena
        /\ CellOf(t, p, 0) \notin maps[p][0]

\* C23: a first touch creates one arena under the per-slot lock and binds it
\* before it allocates from it, and no bind is lost when several threads make
\* their first allocation on the same pool and generation at once: outside
\* the first-touch block, every arena of a running thread is in the set.
C23_NoBindLost ==
    /\ \A t \in Threads : \A p \in LivePools : \A g \in Gens :
          (Running(t) /\ cell[CellOf(t, p, g)] = Arena
               /\ ~(pc[t].op \in {"bind_lock", "bind_read", "bind_write"} /\ pc[t].p = p /\ pc[t].g = g))
            => CellOf(t, p, g) \in maps[p][g]
    /\ \A t \in Threads :
          pc[t].op \in {"create", "bind_lock", "bind_read", "bind_write", "slot_unlock"}
            => slotMutex[CellOf(t, pc[t].p, pc[t].g)] = t

\* C23 witness: two threads are in their first touch of the same pool and
\* generation, one inside BindResource and the other waiting for its lock
C23_Witness ==
    \E t \in Threads, u \in Threads :
        /\ t # u
        /\ pc[t].op = "bind_write"
        /\ pc[u].op = "bind_lock"
        /\ pc[t].p = pc[u].p
        /\ pc[t].g = pc[u].g

\* C24: the lock-taking first-touch path runs at most once for each (thread,
\* pool, generation) over the life of the pool: it is never entered for a
\* handle that a first touch has bound to the pool already.
C24_FirstTouchOnce ==
    [][\A t \in Threads, p \in PoolObjs, temp \in BOOLEAN :
          AllocLockSlot(t, p, temp) =>
              CellOf(t, p, GenOfEntryPoint(p, temp)) \notin maps[p][GenOfEntryPoint(p, temp)]]_vars

\* C25: gc() holds the lock of the registry set during its range-for before
\* the flip and during the one after the callback, and not while the
\* callback runs.
C25_GCLocksEnumerations ==
    [][/\ \A c \in AllCells :
             (WalkVisit(Owner, c) /\ walk.kind \in {"gc1", "gc2"})
                 => collMutex[walk.p][c[3]] = Owner
       /\ \A p \in PoolObjs : \A g \in Gens :
             (inCallback[p] /\ collMutex[p][g] = Owner) => pc[Owner].p = p]_vars

\* thread t is inside bind (BindResource of a first touch) or unbind
\* (removeRefFromPool of a thread exit)
InBindOrUnbind(t) ==
    pc[t].op \in {"bind_lock", "bind_read", "bind_write", "rr_find", "rr_lock", "rr_erase"}

\* thread t is inside GetResourcePointer
InAlloc(t) ==
    pc[t].op \in {"create", "bind_lock", "bind_read", "bind_write", "slot_unlock"}

\* C26: a bind or unbind in progress for pool A never makes an allocation on
\* another pool B wait: the thread inside it holds neither the lock of a
\* registry set of B nor the per-slot lock of another thread, and allocation
\* never takes the mutex of the registry, which unbind holds.
C26_BindNeverBlocksOtherPool ==
    /\ \A t \in Threads : \A b \in PoolObjs : \A g \in Gens :
          (InBindOrUnbind(t) /\ pc[t].p # b) =>
              /\ collMutex[b][g] # t
              /\ \A u \in Threads : u # t => slotMutex[<<u, poolId[b], g>>] # t
    /\ \A t \in Threads : InAlloc(t) => gMutex # t

\* C26 witness: one thread is inside the unbind of a handle of pool A, holding
\* the mutex of the registry and the lock of A's set, while another is inside
\* the bind of its first touch of pool B
C26_Witness ==
    \E t \in Threads, u \in Threads :
        /\ pc[t].op = "rr_erase"
        /\ pc[u].op = "bind_write"
        /\ pc[t].p # pc[u].p
        /\ collMutex[pc[u].p][pc[u].g] = u

\* C28: a thread-exit teardown never accesses the registry entry of a pool
\* that has been destroyed: between the lookup and the removal it holds the
\* mutex of the registry, the entry it found is still there and its pool is
\* not destroyed, and a slot whose id has no pool is skipped without touching
\* any set.
C28_TeardownSeesLivePoolsOnly ==
    [][\A t \in Threads :
          /\ (pc[t].op \in {"rr_lock", "rr_erase"}) =>
                /\ gMutex = t
                /\ (exitPos[t] \div 2) \in DOMAIN collection
                /\ collection[exitPos[t] \div 2] = pc[t].p
                /\ poolState[pc[t].p] # "unborn"
          /\ (RemoveRefFind(t) \/ RemoveRefErase(t) \/ DtorErase(t)) => gMutex = t
          /\ (RemoveRefFind(t) /\ (exitPos[t] \div 2) \notin DOMAIN collection) =>
                UNCHANGED <<maps, collMutex, collection>>]_vars

\* C28 witness: the destructor of a pool waits for the mutex of the registry
\* while a thread exit is removing its handle from that pool
C28_Witness ==
    \E t \in Threads :
        /\ pc[t].op = "rr_erase"
        /\ pc[Owner].op = "dtor_lock"
        /\ pc[Owner].p = pc[t].p

\* thread t is inside a constructor, a destructor, a first touch or its
\* thread-exit teardown
InCall(t) == ~AtIdle(t) \/ tstate[t] = "dtor"

\* C29: construction, destruction, first-touch allocation and thread-exit
\* teardown never deadlock: whenever threads are inside such calls, one of
\* them can take its next step (the locks are taken in the orders registry
\* mutex -> set lock and slot lock -> set lock, which admit no cycle).
C29_NoDeadlock ==
    (\E t \in Threads : InCall(t))
        => \E t \in Threads : InCall(t) /\ ENABLED ThreadStep(t, {"dtor"})

\* Fair scheduling: a thread inside a call whose next step is possible again
\* and again (the lock it waits for is released again and again) takes it
SpecLockPoolsFair ==
    /\ SpecLockPools
    /\ \A t \in Threads : SF_vars(InCall(t) /\ ThreadStep(t, {"dtor"}))

\* C29, termination: under fair scheduling every constructor, destructor,
\* first touch and thread-exit teardown that was entered returns, and no
\* reachable state is a deadlock of the threads inside such calls.
C29_CallsTerminate ==
    /\ []C29_NoDeadlock
    /\ \A t \in Threads : InCall(t) ~> ~InCall(t)

\* C29 witness: an exiting thread holds the mutex of the registry and waits
\* for the lock of a set that a first touch of another thread holds
C29_Witness ==
    \E t \in Threads, u \in Threads :
        /\ pc[t].op = "rr_lock"
        /\ gMutex = t
        /\ pc[u].op \in {"bind_read", "bind_write"}
        /\ pc[u].p = pc[t].p
        /\ pc[u].g = pc[t].g
        /\ collMutex[pc[t].p][pc[t].g] = u

\* C27: a pool constructed with the id of a destroyed pool never allocates
\* from an arena created under the old pool: when it is constructed, no live
\* thread holds an arena in its slot entry of that id and the sets of the pool
\* are empty, so that every first allocation creates and binds a fresh arena.
C27_NewPoolStartsEmpty ==
    [][\A p \in PoolObjs : PoolBorn(p) =>
          /\ \A g \in Gens : maps'[p][g] = {}
          /\ \A t \in Threads : \A g \in Gens :
                Running(t) => cell'[<<t, poolId'[p], g>>] = NoArena]_vars

====
